---- MODULE Spec2Model ----
(***************************************************************************)
(* Lab-report backend (FlaskBackend/Formatting/app.py): the three-level    *)
(* document store (lab_reports -> questions -> subtopics) kept in SQLite,  *)
(* the eight token-guarded REST handlers over it, and the Socket.IO rooms  *)
(* through which every mutation is announced.                              *)
(*                                                                         *)
(* Every handler is a little program whose steps are its calls to the      *)
(* outside world (one SQL statement, one commit, one socketio.emit per     *)
(* step).  Step runs one such call, Run runs a handler to completion.      *)
(* Spec has one worker, which serves its request call by call and takes    *)
(* the next one when it has answered; SpecConc lets two requests           *)
(* interleave between their calls, each on its own SQLite connection.      *)
(***************************************************************************)
EXTENDS Integers, Sequences, FiniteSets, TLC

VARIABLES db, nextId, now, members, last, procs, lock, hist

vars == <<db, nextId, now, members, last, procs, lock, hist>>

(***************************************************************************)
(* Bounds of the model.                                                    *)
(***************************************************************************)
\* identifiers uuid4 hands out in one behaviour of Spec
MaxIds == 3
\* identifiers uuid4 hands out in one behaviour of SpecDeep
MaxIdsDeep == 4
\* identifiers uuid4 hands out in one behaviour of SpecRooms, those of the
\* rows it starts with included
MaxIdsRooms == 4
\* identifiers uuid4 hands out in one behaviour of SpecClock
MaxIdsClock == 3
\* seconds the clock behind CURRENT_TIMESTAMP advances in SpecClock
MaxClock == 1
\* requests one behaviour of SpecConc serves
MaxConcRequests == 2
\* handlers that have sent something when SpecReplay takes its last request
\* or message
MaxLog == 4
\* identifiers uuid4 hands out in one behaviour of SpecOrder
MaxIdsOrder == 5

(***************************************************************************)
(* Values.                                                                 *)
(***************************************************************************)
\* JSON null / SQL NULL
Null == "<null>"
\* the strings a request body carries
Texts == {"a", "b"}
Users == {"admin"}
Clients == {"c1", "c2"}
\* data.get('room') of a join or leave message; 0 is a missing or empty name
RoomNames == {0, 1, 2}
\* the room of a client's own session id (request.sid)
Sid(c) == IF c = "c1" THEN -1 ELSE -2

ReportFields == {"number", "statement", "authors"}
QuestionFields == {"number", "statement"}
SubtopicOptional ==
    {"procedures", "explanation", "citations", "image_url", "figure_description"}
SubtopicFields == {"title"} \cup SubtopicOptional

\* request.json / request.get_json() of a body that is the JSON text null:
\* None. A Flask older than 2.1 gives None as well for a request that carries
\* no JSON at all.
NoData == [kind |-> "null", f |-> [k \in {} |-> ""]]
\* a request that carries no JSON at all, under Flask 2.1 or later:
\* request.json / request.get_json() raises
NoJson == [kind |-> "absent", f |-> [k \in {} |-> ""]]
Obj(keys, v) == [kind |-> "object", f |-> [k \in keys |-> v]]
ObjNullAt(keys, v, nk) ==
    [kind |-> "object", f |-> [k \in keys |-> IF k = nk THEN Null ELSE v]]

\* Python: not data
Falsy(data) == data.kind = "null" \/ DOMAIN data.f = {}
\* Python: key in data
Has(data, k) == data.kind = "object" /\ k \in DOMAIN data.f
\* Python: data.get(key, '')
Get(data, k) == IF k \in DOMAIN data.f THEN data.f[k] ELSE ""

(***************************************************************************)
(* The store: three tables, each a sequence of rows in rowid order.        *)
(***************************************************************************)
EmptyDb == [lab_reports |-> <<>>, questions |-> <<>>, subtopics |-> <<>>]

RECURSIVE InsertSortedTiesFirst(_, _)
\* a sort that puts a row before the rows of its own created_at
InsertSortedTiesFirst(sorted, row) ==
    IF sorted = <<>> THEN <<row>>
    ELSE IF row.created_at <= Head(sorted).created_at
         THEN <<row>> \o sorted
         ELSE <<Head(sorted)>> \o InsertSortedTiesFirst(Tail(sorted), row)

RECURSIVE InsertSorted(_, _)
InsertSorted(sorted, row) ==
    IF sorted = <<>> THEN <<row>>
    ELSE IF row.created_at < Head(sorted).created_at
         THEN <<row>> \o sorted
         ELSE <<Head(sorted)>> \o InsertSorted(Tail(sorted), row)

RECURSIVE OrderByCreatedAt(_)
\* ORDER BY created_at: rows of equal created_at stay in scan order
OrderByCreatedAt(rows) ==
    IF rows = <<>> THEN <<>>
    ELSE InsertSorted(OrderByCreatedAt(SubSeq(rows, 1, Len(rows) - 1)),
                      rows[Len(rows)])

RowIds(t) == {t[i].id : i \in 1..Len(t)}
RowSet(t) == {t[i] : i \in 1..Len(t)}

\* a NOT NULL column of the schema is given NULL: sqlite3.IntegrityError
NotNullViolated(vals) == Null \in vals

(***************************************************************************)
(* The SQL statements of the handlers, as functions of a database view.    *)
(***************************************************************************)
\* SELECT ... FROM lab_reports WHERE id = ?
SelectReport(d, rid) ==
    SelectSeq(d.lab_reports, LAMBDA row : row.id = rid)

\* SELECT * FROM questions WHERE id = ?
SelectQuestion(d, qid) ==
    SelectSeq(d.questions, LAMBDA row : row.id = qid)

\* SELECT * FROM subtopics WHERE id = ?
SelectSubtopic(d, sid) ==
    SelectSeq(d.subtopics, LAMBDA row : row.id = sid)

\* SELECT * FROM questions WHERE lab_report_id = ? ORDER BY created_at
SelectQuestionsOf(d, rid) ==
    OrderByCreatedAt(SelectSeq(d.questions, LAMBDA row : row.lab_report_id = rid))

\* SELECT * FROM subtopics WHERE question_id = ? ORDER BY created_at
SelectSubtopicsOf(d, qid) ==
    OrderByCreatedAt(SelectSeq(d.subtopics, LAMBDA row : row.question_id = qid))

\* a scan that meets the newest row first
SelectSubtopicsNewestFirst(d, qid) ==
    LET rows == SelectSeq(d.subtopics, LAMBDA row : row.question_id = qid)
    IN  [i \in 1..Len(rows) |-> rows[Len(rows) + 1 - i]]

\* SELECT * FROM subtopics WHERE question_id = ?   (no ORDER BY: the scan order)
SelectSubtopicsUnordered(d, qid) ==
    SelectSeq(d.subtopics, LAMBDA row : row.question_id = qid)

\* SELECT q.id FROM questions q JOIN lab_reports lr ON lr.id = q.lab_report_id
\* WHERE q.id = ? AND lr.id = ?
SelectQuestionInReport(d, qid, rid) ==
    SelectSeq(d.questions,
              LAMBDA q : /\ q.id = qid
                         /\ q.lab_report_id = rid
                         /\ rid \in RowIds(d.lab_reports))

\* SELECT s.id FROM subtopics s JOIN questions q ON q.id = s.question_id
\* JOIN lab_reports lr ON lr.id = q.lab_report_id
\* WHERE s.id = ? AND q.id = ? AND lr.id = ?
SelectSubtopicInQuestionInReport(d, sid, qid, rid) ==
    SelectSeq(d.subtopics,
              LAMBDA s : /\ s.id = sid
                         /\ s.question_id = qid
                         /\ SelectQuestionInReport(d, qid, rid) # <<>>)

\* the INSERT with the authors of the body as created_by
InsertReportByAuthors(d, id, data, user, t) ==
    [d EXCEPT !.lab_reports = Append(@,
        [id |-> id, number |-> data.f["number"], statement |-> data.f["statement"],
         authors |-> data.f["authors"], created_by |-> data.f["authors"],
         created_at |-> t])]

\* INSERT INTO lab_reports (id, number, statement, authors, created_by)
InsertReport(d, id, data, user, t) ==
    [d EXCEPT !.lab_reports = Append(@,
        [id |-> id, number |-> data.f["number"], statement |-> data.f["statement"],
         authors |-> data.f["authors"], created_by |-> user, created_at |-> t])]

\* INSERT INTO questions (id, lab_report_id, number, statement)
InsertQuestion(d, id, rid, data, t) ==
    [d EXCEPT !.questions = Append(@,
        [id |-> id, lab_report_id |-> rid, number |-> data.f["number"],
         statement |-> data.f["statement"], created_at |-> t])]

\* INSERT INTO subtopics (id, question_id, title, procedures, explanation,
\* citations, image_url, figure_description)
InsertSubtopic(d, id, qid, data, t) ==
    [d EXCEPT !.subtopics = Append(@,
        [id |-> id, question_id |-> qid, title |-> data.f["title"],
         procedures |-> Get(data, "procedures"),
         explanation |-> Get(data, "explanation"),
         citations |-> Get(data, "citations"),
         image_url |-> Get(data, "image_url"),
         figure_description |-> Get(data, "figure_description"),
         created_at |-> t])]

\* the UPDATE without its WHERE id = ?
UpdateReportEveryRow(d, rid, data) ==
    [d EXCEPT !.lab_reports =
        [i \in 1..Len(@) |->
            [@[i] EXCEPT !.number = data.f["number"],
                         !.statement = data.f["statement"],
                         !.authors = data.f["authors"]]]]

\* UPDATE lab_reports SET number = ?, statement = ?, authors = ? WHERE id = ?
UpdateReport(d, rid, data) ==
    [d EXCEPT !.lab_reports =
        [i \in 1..Len(@) |->
            IF @[i].id = rid
            THEN [@[i] EXCEPT !.number = data.f["number"],
                              !.statement = data.f["statement"],
                              !.authors = data.f["authors"]]
            ELSE @[i]]]

\* an INSERT OR REPLACE in place of the UPDATE: a question that is not there
\* is written anew
UpdateQuestionUpsert(d, qid, data) ==
    IF \E i \in 1..Len(d.questions) : d.questions[i].id = qid
    THEN [d EXCEPT !.questions =
              [i \in 1..Len(@) |->
                  IF @[i].id = qid
                  THEN [@[i] EXCEPT !.number = data.f["number"],
                                    !.statement = data.f["statement"]]
                  ELSE @[i]]]
    ELSE [d EXCEPT !.questions = Append(@,
              [id |-> qid, lab_report_id |-> 0, number |-> data.f["number"],
               statement |-> data.f["statement"], created_at |-> 0])]

\* UPDATE questions SET number = ?, statement = ? WHERE id = ?
UpdateQuestion(d, qid, data) ==
    [d EXCEPT !.questions =
        [i \in 1..Len(@) |->
            IF @[i].id = qid
            THEN [@[i] EXCEPT !.number = data.f["number"],
                              !.statement = data.f["statement"]]
            ELSE @[i]]]

\* an UPDATE that sets only the columns the request names and keeps the
\* others
UpdateSubtopicPatch(d, sid, data) ==
    [d EXCEPT !.subtopics =
        [i \in 1..Len(@) |->
            IF @[i].id = sid
            THEN [k \in DOMAIN @[i] |->
                     IF k \in SubtopicFields /\ Has(data, k)
                     THEN data.f[k] ELSE @[i][k]]
            ELSE @[i]]]

\* UPDATE subtopics SET title = ?, procedures = ?, explanation = ?,
\* citations = ?, image_url = ?, figure_description = ? WHERE id = ?
UpdateSubtopic(d, sid, data) ==
    [d EXCEPT !.subtopics =
        [i \in 1..Len(@) |->
            IF @[i].id = sid
            THEN [@[i] EXCEPT !.title = data.f["title"],
                              !.procedures = Get(data, "procedures"),
                              !.explanation = Get(data, "explanation"),
                              !.citations = Get(data, "citations"),
                              !.image_url = Get(data, "image_url"),
                              !.figure_description = Get(data, "figure_description")]
            ELSE @[i]]]

\* the cascade without its first statement
DeleteSubtopicsOfReportSkipped(d, rid) == d

\* DELETE FROM subtopics WHERE question_id IN
\*   (SELECT id FROM questions WHERE lab_report_id = ?)
DeleteSubtopicsOfReport(d, rid) ==
    [d EXCEPT !.subtopics =
        SelectSeq(@, LAMBDA s :
            s.question_id \notin
                RowIds(SelectSeq(d.questions, LAMBDA q : q.lab_report_id = rid)))]

\* DELETE FROM questions WHERE lab_report_id = ?
DeleteQuestionsOfReport(d, rid) ==
    [d EXCEPT !.questions = SelectSeq(@, LAMBDA q : q.lab_report_id # rid)]

\* DELETE FROM lab_reports WHERE id = ?
DeleteReport(d, rid) ==
    [d EXCEPT !.lab_reports = SelectSeq(@, LAMBDA row : row.id # rid)]


(***************************************************************************)
(* A request being served.  r is the handler's own state (its position pc, *)
(* its connection, its locals, its response); w is what it shares with the *)
(* other requests: the committed database, SQLite's write lock, the uuid   *)
(* and clock sources, and the rooms.                                       *)
(***************************************************************************)
Ops == {"create_lab_report", "get_lab_report", "update_lab_report",
        "delete_lab_report", "add_question", "add_subtopic",
        "update_subtopic", "update_question"}

\* the Authorization header: absent, not a valid token, or a user's token
Auths == {"none", "bad"} \cup Users

NewRequest(id, op, auth, rid, qid, sid, data) ==
    [id |-> id, op |-> op, auth |-> auth, rid |-> rid, qid |-> qid, sid |-> sid,
     data |-> data, pc |-> "begin", txn |-> FALSE, work |-> EmptyDb, nid |-> 0,
     doc |-> <<>>, qs |-> <<>>, i |-> 0, status |-> 0, body |-> <<>>,
     events |-> <<>>, committed |-> FALSE, fault |-> "none", pre |-> EmptyDb]

World(d, l, n, t, m) ==
    [db |-> d, lock |-> l, nextId |-> n, now |-> t, members |-> m]

Res(r, w) == [r |-> r, w |-> w]

\* return jsonify(body), status
Reply(r, status, body) ==
    [r EXCEPT !.pc = "done", !.status = status, !.body = body]

\* a gate that only asks for a token to be present
TokenPresent(r) == r.auth # "none"

\* token_required: the token is present and jwt.decode accepts it
TokenOk(r) == r.auth \in Users

\* what a statement on r's connection reads: its own uncommitted writes
\* inside its transaction, the committed database otherwise
View(r, w) == IF r.txn THEN r.work ELSE w.db

\* a connection in autocommit mode (isolation_level = None): every write is
\* committed as it is made
ExecAutocommit(r, w, d) ==
    Res([r EXCEPT !.committed = TRUE], [w EXCEPT !.db = d])

\* c.execute(INSERT / UPDATE / DELETE): sqlite3 opens a transaction before
\* the first one (isolation_level is the default) and the write stays on the
\* connection until commit
Exec(r, w, d) ==
    Res([r EXCEPT !.txn = TRUE, !.work = d], [w EXCEPT !.lock = r.id])

\* conn.commit()
Commit(r, w) ==
    Res([r EXCEPT !.txn = FALSE, !.work = EmptyDb, !.committed = @ \/ r.txn],
        [w EXCEPT !.db = IF r.txn THEN r.work ELSE @,
                  !.lock = IF @ = r.id THEN 0 ELSE @])

\* conn.close() / conn.rollback(): what was not committed is dropped
CloseConn(r, w) ==
    Res([r EXCEPT !.txn = FALSE, !.work = EmptyDb],
        [w EXCEPT !.lock = IF @ = r.id THEN 0 ELSE @])

\* an except clause of a handler: close (or roll back) the connection and
\* return jsonify({'error': ...}), 500
Raised(r, w) ==
    LET c == CloseConn(r, w)
    IN  Res(Reply(c.r, 500, [error |-> "error"]), c.w)

\* an emit without room=: the event goes to every connected client
RecipientsBroadcast(w, room) == Clients

\* the clients socketio delivers an event for `room` to
Recipients(w, room) == {c \in Clients : <<c, room>> \in w.members}

\* an emit that sends the event twice
EmitTwice(r, w, name, payload) ==
    LET e == [name |-> name, room |-> r.rid, payload |-> payload,
              to |-> {c \in Clients : <<c, r.rid>> \in w.members}]
    IN  [r EXCEPT !.events = @ \o <<e, e>>]

\* socketio.emit(name, payload, room=report_id)
Emit(r, w, name, payload) ==
    [r EXCEPT !.events = Append(@, [name |-> name, room |-> r.rid,
                                    payload |-> payload,
                                    to |-> Recipients(w, r.rid)])]

\* str(uuid.uuid4())
Uuid4(r, w) == Res([r EXCEPT !.nid = w.nextId], [w EXCEPT !.nextId = @ + 1])

Goto(res, pc) == Res([res.r EXCEPT !.pc = pc], res.w)

\* the questions of the report, then for each of them its subtopics:
\*   c.execute('SELECT * FROM questions WHERE lab_report_id = ? ORDER BY created_at')
ReadQuestions(r, w, raises, after) ==
    IF raises THEN Raised(r, w)
    ELSE LET rows == SelectQuestionsOf(View(r, w), r.rid)
         IN  IF rows = <<>>
             THEN Res([r EXCEPT !.qs = <<>>, !.pc = after], w)
             ELSE Res([r EXCEPT !.qs = rows, !.i = 1, !.pc = "subtopics"], w)

\*   for q in questions: c.execute('SELECT * FROM subtopics WHERE question_id = ?
\*   ORDER BY created_at'); q['subtopics'] = ...
ReadSubtopics(r, w, raises, after) ==
    IF raises THEN Raised(r, w)
    ELSE LET q  == r.qs[r.i]
             qd == q @@ [subtopics |-> SelectSubtopicsOf(View(r, w), q.id)]
         IN  Res([r EXCEPT !.qs[r.i] = qd, !.i = @ + 1,
                           !.pc = IF r.i = Len(r.qs) THEN after ELSE @], w)

\* the report document without the questions read for it
NestedFlat(r) == r.doc @@ [questions |-> <<>>]

Nested(r) == r.doc @@ [questions |-> r.qs]


(***************************************************************************)
(* The handlers.  Each operator runs the call the handler is at (r.pc) and *)
(* what the handler does around it; `raises` says that this call raises    *)
(* (sqlite3.Error for a statement or a commit, any exception for an emit). *)
(***************************************************************************)
Err(msg) == [error |-> msg]

\* POST /api/lab-reports
CreateLabReport(r, w, raises) ==
    CASE r.pc = "begin" ->
           IF ~TokenOk(r) THEN Res(Reply(r, 401, Err("token")), w)
           \* data = request.json raising inside the try: except Exception
           ELSE IF r.data.kind = "absent" THEN Raised(r, w)
           ELSE IF Falsy(r.data) THEN Res(Reply(r, 400, Err("No data provided")), w)
           ELSE IF \E k \in ReportFields : ~Has(r.data, k)
                THEN Res(Reply(r, 400, Err("Missing required fields")), w)
           ELSE LET u == Uuid4(r, w)
                IN  \* CREATE TABLE IF NOT EXISTS lab_reports
                    IF raises THEN Raised(u.r, u.w) ELSE Goto(u, "insert")
      [] r.pc = "insert" ->
           IF raises \/ NotNullViolated({r.data.f[k] : k \in ReportFields})
           THEN Raised(r, w)
           ELSE Goto(Exec(r, w, InsertReport(View(r, w), r.nid, r.data, r.auth, w.now)),
                     "commit")
      [] r.pc = "commit" ->
           IF raises THEN Raised(r, w) ELSE Goto(Commit(r, w), "fetch")
      [] r.pc = "fetch" ->
           IF raises THEN Raised(r, w)
           ELSE LET rows == SelectReport(View(r, w), r.nid)
                IN  IF rows # <<>>
                    THEN Res(Reply(r, 201, rows[1] @@ [questions |-> <<>>]), w)
                    ELSE Res(Reply(r, 500, Err("Failed to create report")), w)

\* a get that removes the report it was asked for
GetLabReportConsuming(r, w, raises) ==
    IF ~TokenOk(r) THEN Res(Reply(r, 401, Err("token")), w)
    ELSE IF SelectReport(View(r, w), r.rid) = <<>>
         THEN Res(Reply(r, 404, Err("Lab report not found")), w)
    ELSE Res(Reply(r, 200, SelectReport(View(r, w), r.rid)[1] @@ [questions |-> <<>>]),
             [w EXCEPT !.db = DeleteReport(@, r.rid)])

\* GET /api/lab-reports/<report_id>
GetLabReport(r, w, raises) ==
    CASE r.pc = "begin" ->
           IF ~TokenOk(r) THEN Res(Reply(r, 401, Err("token")), w)
           ELSE IF raises THEN Raised(r, w)
           ELSE LET rows == SelectReport(View(r, w), r.rid)
                IN  IF rows = <<>>
                    THEN Res(Reply(r, 404, Err("Lab report not found")), w)
                    ELSE Res([r EXCEPT !.doc = rows[1], !.pc = "questions"], w)
      [] r.pc = "questions" -> ReadQuestions(r, w, raises, "reply")
      [] r.pc = "subtopics" -> ReadSubtopics(r, w, raises, "reply")
      [] r.pc = "reply" -> Res(Reply(r, 200, Nested(r)), w)

\* PUT /api/lab-reports/<report_id>
UpdateLabReport(r, w, raises) ==
    CASE r.pc = "begin" ->
           IF ~TokenOk(r) THEN Res(Reply(r, 401, Err("token")), w)
           ELSE IF r.data.kind = "absent" THEN Raised(r, w)
           ELSE IF Falsy(r.data) THEN Res(Reply(r, 400, Err("No data provided")), w)
           ELSE IF \E k \in ReportFields : ~Has(r.data, k)
                THEN Res(Reply(r, 400, Err("Missing required field")), w)
           ELSE IF raises THEN Raised(r, w)
           ELSE IF SelectReport(View(r, w), r.rid) = <<>>
                THEN Res(Reply(r, 404, Err("Lab report not found")), w)
           ELSE Res([r EXCEPT !.pc = "update"], w)
      [] r.pc = "update" ->
           \* NOT NULL is checked on the rows the UPDATE changes: a statement
           \* whose WHERE id = ? finds no row changes none and raises nothing
           IF raises THEN Raised(r, w)
           ELSE IF /\ SelectReport(View(r, w), r.rid) # <<>>
                   /\ NotNullViolated({r.data.f[k] : k \in ReportFields})
                THEN Raised(r, w)
           ELSE Goto(Exec(r, w, UpdateReport(View(r, w), r.rid, r.data)), "commit")
      [] r.pc = "commit" ->
           IF raises THEN Raised(r, w) ELSE Goto(Commit(r, w), "fetch")
      [] r.pc = "fetch" ->
           IF raises THEN Raised(r, w)
           ELSE LET rows == SelectReport(View(r, w), r.rid)
                IN  \* dict(c.fetchone()) of no row: TypeError
                    IF rows = <<>> THEN Raised(r, w)
                    ELSE Res([r EXCEPT !.doc = rows[1], !.pc = "questions"], w)
      [] r.pc = "questions" -> ReadQuestions(r, w, raises, "emit")
      [] r.pc = "subtopics" -> ReadSubtopics(r, w, raises, "emit")
      [] r.pc = "emit" ->
           IF raises THEN Raised(r, w)
           ELSE Res(Reply(Emit(r, w, "lab_report_updated", Nested(r)), 200, Nested(r)), w)

\* delete_lab_report with its emit moved before conn.commit()
DeleteLabReportEmitsFirst(r, w, raises) ==
    CASE r.pc = "begin" ->
           IF ~TokenOk(r) THEN Res(Reply(r, 401, Err("token")), w)
           ELSE IF raises THEN Raised(r, w)
           ELSE IF SelectReport(View(r, w), r.rid) = <<>>
                THEN Res(Reply(r, 404, Err("Lab report not found")), w)
           ELSE Res([r EXCEPT !.pc = "del_subtopics"], w)
      [] r.pc = "del_subtopics" ->
           IF raises THEN Raised(r, w)
           ELSE Goto(Exec(r, w, DeleteSubtopicsOfReport(View(r, w), r.rid)),
                     "del_questions")
      [] r.pc = "del_questions" ->
           IF raises THEN Raised(r, w)
           ELSE Goto(Exec(r, w, DeleteQuestionsOfReport(View(r, w), r.rid)),
                     "del_report")
      [] r.pc = "del_report" ->
           IF raises THEN Raised(r, w)
           ELSE Goto(Exec(r, w, DeleteReport(View(r, w), r.rid)), "emit")
      [] r.pc = "emit" ->
           IF raises THEN Raised(r, w)
           ELSE Res([Emit(r, w, "lab_report_deleted", [report_id |-> r.rid])
                         EXCEPT !.pc = "commit"], w)
      [] r.pc = "commit" ->
           IF raises THEN Raised(r, w)
           ELSE LET c == Commit(r, w)
                IN  Res(Reply(c.r, 200, [message |-> "deleted"]), c.w)

\* DELETE /api/lab-reports/<report_id>
DeleteLabReport(r, w, raises) ==
    CASE r.pc = "begin" ->
           IF ~TokenOk(r) THEN Res(Reply(r, 401, Err("token")), w)
           ELSE IF raises THEN Raised(r, w)
           ELSE IF SelectReport(View(r, w), r.rid) = <<>>
                THEN Res(Reply(r, 404, Err("Lab report not found")), w)
           ELSE Res([r EXCEPT !.pc = "del_subtopics"], w)
      [] r.pc = "del_subtopics" ->
           IF raises THEN Raised(r, w)
           ELSE Goto(Exec(r, w, DeleteSubtopicsOfReport(View(r, w), r.rid)),
                     "del_questions")
      [] r.pc = "del_questions" ->
           IF raises THEN Raised(r, w)
           ELSE Goto(Exec(r, w, DeleteQuestionsOfReport(View(r, w), r.rid)),
                     "del_report")
      [] r.pc = "del_report" ->
           IF raises THEN Raised(r, w)
           ELSE Goto(Exec(r, w, DeleteReport(View(r, w), r.rid)), "commit")
      [] r.pc = "commit" ->
           IF raises THEN Raised(r, w) ELSE Goto(Commit(r, w), "emit")
      [] r.pc = "emit" ->
           IF raises THEN Raised(r, w)
           ELSE Res(Reply(Emit(r, w, "lab_report_deleted", [report_id |-> r.rid]),
                          200, [message |-> "deleted"]), w)

\* add_question with its two checks in the other order: the report's
\* existence before the body
AddQuestionChecksReportFirst(r, w, raises) ==
    IF ~TokenOk(r) THEN Res(Reply(r, 401, Err("token")), w)
    ELSE IF r.data.kind = "absent" THEN Raised(r, w)
    ELSE IF raises THEN Raised(r, w)
    ELSE IF SelectReport(View(r, w), r.rid) = <<>>
         THEN Res(Reply(r, 404, Err("Lab report not found")), w)
    ELSE IF Falsy(r.data) THEN Res(Reply(r, 400, Err("No data provided")), w)
    ELSE IF \E k \in QuestionFields : ~Has(r.data, k)
         THEN Res(Reply(r, 400, Err("Missing required fields")), w)
    ELSE Res([r EXCEPT !.pc = "insert"], w)

\* add_question writing the question before it looks for the report
AddQuestionInsertsFirst(r, w, raises) ==
    IF ~TokenOk(r) THEN Res(Reply(r, 401, Err("token")), w)
    ELSE IF r.data.kind = "absent" THEN Raised(r, w)
    ELSE IF Falsy(r.data) THEN Res(Reply(r, 400, Err("No data provided")), w)
    ELSE IF \E k \in QuestionFields : ~Has(r.data, k)
         THEN Res(Reply(r, 400, Err("Missing required fields")), w)
    ELSE IF raises THEN Raised(r, w)
    ELSE IF SelectReport(View(r, w), r.rid) = <<>>
         THEN Res(Reply(r, 404, Err("Lab report not found")),
                  [w EXCEPT !.db = [@ EXCEPT !.questions = Append(@,
                      [id |-> w.nextId, lab_report_id |-> r.rid,
                       number |-> Get(r.data, "number"),
                       statement |-> Get(r.data, "statement"),
                       created_at |-> w.now])]])
    ELSE Res([r EXCEPT !.pc = "insert"], w)

\* add_question up to its first statement: the token, the body, then
\* SELECT id FROM lab_reports WHERE id = ?
AddQuestionChecks(r, w, raises) ==
    IF ~TokenOk(r) THEN Res(Reply(r, 401, Err("token")), w)
    ELSE IF r.data.kind = "absent" THEN Raised(r, w)
    ELSE IF Falsy(r.data) THEN Res(Reply(r, 400, Err("No data provided")), w)
    ELSE IF \E k \in QuestionFields : ~Has(r.data, k)
         THEN Res(Reply(r, 400, Err("Missing required fields")), w)
    ELSE IF raises THEN Raised(r, w)
    ELSE IF SelectReport(View(r, w), r.rid) = <<>>
         THEN Res(Reply(r, 404, Err("Lab report not found")), w)
    ELSE Res([r EXCEPT !.pc = "insert"], w)

\* POST /api/lab-reports/<report_id>/questions
AddQuestion(r, w, raises) ==
    CASE r.pc = "begin" -> AddQuestionChecks(r, w, raises)
      [] r.pc = "insert" ->
           LET u == Uuid4(r, w)
           IN  IF raises \/ NotNullViolated({r.data.f[k] : k \in QuestionFields})
               THEN Raised(u.r, u.w)
               ELSE Goto(Exec(u.r, u.w,
                              InsertQuestion(View(r, w), u.r.nid, r.rid, r.data, w.now)),
                         "commit")
      [] r.pc = "commit" ->
           IF raises THEN Raised(r, w) ELSE Goto(Commit(r, w), "fetch")
      [] r.pc = "fetch" ->
           IF raises THEN Raised(r, w)
           ELSE LET rows == SelectQuestion(View(r, w), r.nid)
                IN  IF rows # <<>>
                    THEN Res([r EXCEPT !.doc = rows[1] @@ [subtopics |-> <<>>],
                                       !.pc = "emit"], w)
                    ELSE Res(Reply(r, 500, Err("Failed to create question")), w)
      [] r.pc = "emit" ->
           IF raises THEN Raised(r, w)
           ELSE Res(Reply(Emit(r, w, "question_added", r.doc), 201, r.doc), w)

\* POST /api/lab-reports/<report_id>/questions/<question_id>/subtopics
AddSubtopic(r, w, raises) ==
    CASE r.pc = "begin" ->
           IF ~TokenOk(r) THEN Res(Reply(r, 401, Err("token")), w)
           ELSE IF r.data.kind = "absent" THEN Raised(r, w)
           ELSE IF raises THEN Raised(r, w)
           ELSE IF SelectQuestionInReport(View(r, w), r.qid, r.rid) = <<>>
                THEN Res(Reply(r, 404, Err("Question not found")), w)
           ELSE Res([r EXCEPT !.pc = "insert"], w)
      [] r.pc = "insert" ->
           LET u == Uuid4(r, w)
           IN  \* data['title'] of no object or of one without the key:
               \* TypeError / KeyError
               IF ~Has(r.data, "title") THEN Raised(u.r, u.w)
               ELSE IF raises \/ NotNullViolated({r.data.f["title"]})
                    THEN Raised(u.r, u.w)
               ELSE Goto(Exec(u.r, u.w,
                              InsertSubtopic(View(r, w), u.r.nid, r.qid, r.data, w.now)),
                         "commit")
      [] r.pc = "commit" ->
           IF raises THEN Raised(r, w) ELSE Goto(Commit(r, w), "fetch")
      [] r.pc = "fetch" ->
           IF raises THEN Raised(r, w)
           ELSE LET rows == SelectSubtopic(View(r, w), r.nid)
                IN  IF rows # <<>>
                    THEN Res([r EXCEPT !.doc = rows[1], !.pc = "emit"], w)
                    ELSE Res(Reply(r, 500, Err("Failed to create subtopic")), w)
      [] r.pc = "emit" ->
           IF raises THEN Raised(r, w)
           ELSE Res(Reply(Emit(r, w, "subtopic_added",
                               [question_id |-> r.qid, subtopic |-> r.doc]),
                          201, r.doc), w)

\* PUT /api/lab-reports/<report_id>/questions/<question_id>/subtopics/<subtopic_id>
UpdateSubtopicHandler(r, w, raises) ==
    CASE r.pc = "begin" ->
           IF ~TokenOk(r) THEN Res(Reply(r, 401, Err("token")), w)
           ELSE IF r.data.kind = "absent" THEN Raised(r, w)
           ELSE IF raises THEN Raised(r, w)
           ELSE IF SelectSubtopicInQuestionInReport(View(r, w), r.sid, r.qid, r.rid) = <<>>
                THEN Res(Reply(r, 404, Err("Subtopic not found")), w)
           ELSE Res([r EXCEPT !.pc = "update"], w)
      [] r.pc = "update" ->
           \* data['title'] of no object or of one without the key:
           \* TypeError / KeyError before the statement runs
           IF ~Has(r.data, "title") THEN Raised(r, w)
           ELSE IF raises THEN Raised(r, w)
           \* NOT NULL is checked on the rows the UPDATE changes
           ELSE IF /\ SelectSubtopic(View(r, w), r.sid) # <<>>
                   /\ NotNullViolated({r.data.f["title"]})
                THEN Raised(r, w)
           ELSE Goto(Exec(r, w, UpdateSubtopic(View(r, w), r.sid, r.data)), "commit")
      [] r.pc = "commit" ->
           IF raises THEN Raised(r, w) ELSE Goto(Commit(r, w), "fetch")
      [] r.pc = "fetch" ->
           IF raises THEN Raised(r, w)
           ELSE LET rows == SelectSubtopic(View(r, w), r.sid)
                IN  IF rows # <<>>
                    THEN Res([r EXCEPT !.doc = rows[1], !.pc = "emit"], w)
                    ELSE Res(Reply(r, 500, Err("Failed to update subtopic")), w)
      [] r.pc = "emit" ->
           IF raises THEN Raised(r, w)
           ELSE Res(Reply(Emit(r, w, "subtopic_updated",
                               [question_id |-> r.qid, subtopic |-> r.doc]),
                          200, r.doc), w)

\* PUT /api/lab-reports/<report_id>/questions/<question_id>
UpdateQuestionHandler(r, w, raises) ==
    CASE r.pc = "begin" ->
           IF ~TokenOk(r) THEN Res(Reply(r, 401, Err("token")), w)
           ELSE IF r.data.kind = "absent" THEN Raised(r, w)
           ELSE IF raises THEN Raised(r, w)
           ELSE IF SelectQuestionInReport(View(r, w), r.qid, r.rid) = <<>>
                THEN Res(Reply(r, 404, Err("Question not found")), w)
           ELSE Res([r EXCEPT !.pc = "update"], w)
      [] r.pc = "update" ->
           \* data['number'], data['statement'] of no object or of one
           \* without the key: TypeError / KeyError before the statement runs
           IF \E k \in QuestionFields : ~Has(r.data, k) THEN Raised(r, w)
           ELSE IF raises THEN Raised(r, w)
           \* NOT NULL is checked on the rows the UPDATE changes
           ELSE IF /\ SelectQuestion(View(r, w), r.qid) # <<>>
                   /\ NotNullViolated({r.data.f[k] : k \in QuestionFields})
                THEN Raised(r, w)
           ELSE Goto(Exec(r, w, UpdateQuestion(View(r, w), r.qid, r.data)), "commit")
      [] r.pc = "commit" ->
           IF raises THEN Raised(r, w) ELSE Goto(Commit(r, w), "fetch")
      [] r.pc = "fetch" ->
           IF raises THEN Raised(r, w)
           ELSE LET rows == SelectQuestion(View(r, w), r.qid)
                IN  IF rows # <<>>
                    THEN Res([r EXCEPT !.doc = rows[1], !.pc = "subtopics"], w)
                    ELSE Res(Reply(r, 500, Err("Failed to update question")), w)
      [] r.pc = "subtopics" ->
           IF raises THEN Raised(r, w)
           ELSE Res([r EXCEPT !.doc = @ @@ [subtopics |->
                                  SelectSubtopicsUnordered(View(r, w), r.qid)],
                              !.pc = "emit"], w)
      [] r.pc = "emit" ->
           IF raises THEN Raised(r, w)
           ELSE Res(Reply(Emit(r, w, "question_updated", r.doc), 200, r.doc), w)

\* one call of the handler serving r
Step(r, w, raises) ==
    CASE r.op = "create_lab_report" -> CreateLabReport(r, w, raises)
      [] r.op = "get_lab_report"    -> GetLabReport(r, w, raises)
      [] r.op = "update_lab_report" -> UpdateLabReport(r, w, raises)
      [] r.op = "delete_lab_report" -> DeleteLabReport(r, w, raises)
      [] r.op = "add_question"      -> AddQuestion(r, w, raises)
      [] r.op = "add_subtopic"      -> AddSubtopic(r, w, raises)
      [] r.op = "update_subtopic"   -> UpdateSubtopicHandler(r, w, raises)
      [] r.op = "update_question"   -> UpdateQuestionHandler(r, w, raises)

RECURSIVE Run(_, _, _)
\* a whole request served alone, from where it is to its response; its call
\* at position `fault` raises
Run(r, w, fault) ==
    IF r.pc = "done" THEN Res(r, w)
    ELSE LET s == Step(r, w, r.pc = fault)
         IN  Run(s.r, s.w, fault)


(***************************************************************************)
(* The requests a client can send.                                         *)
(***************************************************************************)
ReportBodies ==
    {NoData,
     NoJson,
     Obj(ReportFields \ {"authors"}, "a"),
     Obj(ReportFields, "a"),
     Obj(ReportFields, "b"),
     ObjNullAt(ReportFields, "a", "number")}

QuestionBodies ==
    {NoData,
     NoJson,
     Obj(QuestionFields \ {"statement"}, "a"),
     Obj(QuestionFields, "a"),
     Obj(QuestionFields, "b"),
     ObjNullAt(QuestionFields, "a", "statement")}

SubtopicBodies ==
    {NoData,
     NoJson,
     Obj(SubtopicOptional, "a"),
     Obj({"title"}, "a"),
     Obj(SubtopicFields, "b"),
     ObjNullAt(SubtopicFields, "a", "procedures")}

\* the calls of a handler, by the position the handler is at
Calls(op) ==
    CASE op = "create_lab_report" -> {"begin", "insert", "commit", "fetch"}
      [] op = "get_lab_report"    -> {"begin", "questions", "subtopics"}
      [] op = "update_lab_report" ->
           {"begin", "update", "commit", "fetch", "questions", "subtopics", "emit"}
      [] op = "delete_lab_report" ->
           {"begin", "del_subtopics", "del_questions", "del_report", "commit", "emit"}
      [] op = "add_question"      -> {"begin", "insert", "commit", "fetch", "emit"}
      [] op = "add_subtopic"      -> {"begin", "insert", "commit", "fetch", "emit"}
      [] op = "update_subtopic"   -> {"begin", "update", "commit", "fetch", "emit"}
      [] op = "update_question"   ->
           {"begin", "update", "commit", "fetch", "subtopics", "emit"}

\* <<Authorization header, body, call that raises>>: every body with a valid
\* token and no fault, the two ways of failing the token check and, with
\* `faults`, every call of the handler raising (valid token, body `full`)
Variations(op, bodies, full, faults) ==
    {<<u, d, "none">> : u \in Users, d \in bodies}
    \cup {<<a, full, "none">> : a \in {"none", "bad"}}
    \cup {<<u, full, c>> : u \in Users, c \in IF faults THEN Calls(op) ELSE {}}

\* the identifiers a request can name for a table: those of its rows, and
\* one that names no row of it (never handed out, deleted, or of another table)
Named(t) == RowIds(t) \cup {nextId}

(***************************************************************************)
(* State.  procs holds the workers with the request each is serving and    *)
(* the call its handler is at.  last is the response on its way to the     *)
(* caller, with the request it answers, the database as the handler's      *)
(* first call found it and the identifier the handler drew (0 if none);    *)
(* nothing else happens until the response is sent.                        *)
(***************************************************************************)
NoLast ==
    [req |-> NewRequest(0, "none", "none", 0, 0, 0, NoData), fault |-> "none",
     pre |-> EmptyDb, status |-> 0, events |-> <<>>, committed |-> FALSE,
     nid |-> 0]

\* hist after a handler has sent the events evs: where a specification
\* follows what the clients are sent (hist is <<>> where it does not), the log
\* of the handlers that sent something and, per client, the events it got,
\* each with the place in the log of the handler that sent it
Heard(h, kind, c, room, evs) ==
    IF DOMAIN h = {} \/ evs = <<>> THEN h
    ELSE [log |-> Append(h.log, [kind |-> kind, c |-> c, room |-> room]),
          inbox |-> [x \in Clients |->
              LET mine == SelectSeq(evs, LAMBDA e : x \in e.to)
              IN  h.inbox[x] \o [i \in 1..Len(mine) |->
                      [at |-> Len(h.log) + 1, name |-> mine[i].name,
                       room |-> mine[i].room]]]]

\* the events without their payloads
Envelopes(evs) ==
    [i \in 1..Len(evs) |-> [name |-> evs[i].name, room |-> evs[i].room,
                            to |-> evs[i].to]]

IdleProc(i) == [NewRequest(i, "none", "none", 0, 0, 0, NoData) EXCEPT !.pc = "idle"]

\* the worker of a server that takes one request at a time, idle
Worker == <<IdleProc(1)>>

\* the import of app.py as it ends: init_db has created the tables and the
\* admin user and committed them, then raises KeyError at its verification of
\* the admin row (admin_user[0] of a row that dict_factory made a dict); the
\* exception is raised again by init_db and by the module, so no handler is
\* registered and no request is ever served
StartupFailed ==
    [NoLast EXCEPT !.req.op = "init_db", !.fault = "verify", !.committed = TRUE]

\* the states requests are followed from: the one the import of app.py ends
\* in, which serves nothing, and, to follow the handlers as they run once
\* they are registered, the server with the store d (identifiers handed out
\* up to n - 1), the rooms m, the workers p and the history h
Startup(d, n, m, p, h) ==
    /\ now = 0
    /\ lock = 0
    /\ procs = p
    /\ hist = h
    /\ \/ db = EmptyDb /\ nextId = 1 /\ members = {} /\ last = StartupFailed
       \/ db = d /\ nextId = n /\ members = m /\ last = NoLast

SeedReport ==
    Run(NewRequest(0, "create_lab_report", "admin", 0, 0, 0, Obj(ReportFields, "a")),
        World(EmptyDb, 0, 1, 0, {}), "none").w

SeedQuestion ==
    Run(NewRequest(0, "add_question", "admin", 1, 0, 0, Obj(QuestionFields, "a")),
        SeedReport, "none").w

SeedSubtopic ==
    Run(NewRequest(0, "add_subtopic", "admin", 1, 2, 0, Obj({"title"}, "a")),
        SeedQuestion, "none").w

Init == Startup(EmptyDb, 1, {}, Worker, <<>>)

\* the call r is at hands an INSERT, UPDATE or DELETE statement to SQLite.
\* The arguments of c.execute are evaluated first: a KeyError or TypeError
\* there and no statement runs
Writes(r) ==
    CASE r.pc \in {"del_subtopics", "del_questions", "del_report"} -> TRUE
      [] r.pc = "insert" -> r.op = "add_subtopic" => Has(r.data, "title")
      [] r.pc = "update" ->
           /\ r.op = "update_subtopic" => Has(r.data, "title")
           /\ r.op = "update_question" => \A k \in QuestionFields : Has(r.data, k)
      [] OTHER -> FALSE

\* the call would start a write while another connection holds the write
\* lock: SQLite makes it wait.  The lock is asked for when the statement
\* starts, before any row is changed or any constraint is checked
Blocked(r, w) ==
    /\ w.lock \notin {0, r.id}
    /\ Writes(r)

\* a request reaches worker i, which is idle; `fault` names the call of its
\* handler that will raise.  The identifier the request would draw if no
\* other request changed the store meanwhile must be one of the maxIds first
Accept(i, maxIds, req, fault) ==
    /\ last = NoLast
    /\ i \in DOMAIN procs
    /\ procs[i].pc = "idle"
    /\ Run(req, World(db, 0, nextId, now, members), fault).w.nextId <= maxIds + 1
    /\ procs' = [procs EXCEPT ![i] = [req EXCEPT !.id = i, !.fault = fault]]
    /\ UNCHANGED <<db, nextId, now, members, last, lock, hist>>

\* worker i makes the next call of its handler; when the handler returns,
\* its response is on its way to the caller and the worker is idle again
Handle(i) ==
    LET r == procs[i]
        w == World(db, lock, nextId, now, members)
        s == Step(r, w, r.pc = r.fault)
        sent == SubSeq(s.r.events, Len(r.events) + 1, Len(s.r.events))
        found == IF r.pc = "begin" THEN db ELSE r.pre
    IN  /\ last = NoLast
        /\ r.pc \notin {"idle", "done"}
        /\ r.pc = r.fault \/ ~Blocked(r, w)
        /\ db' = s.w.db
        /\ lock' = s.w.lock
        /\ nextId' = s.w.nextId
        /\ procs' = [procs EXCEPT ![i] = IF s.r.pc = "done" THEN IdleProc(i)
                                         ELSE [s.r EXCEPT !.pre = found]]
        /\ last' = IF s.r.pc # "done" THEN last
                   ELSE [req |-> NewRequest(0, r.op, r.auth, r.rid, r.qid, r.sid, r.data),
                         fault |-> r.fault, pre |-> found, status |-> s.r.status,
                         events |-> Envelopes(s.r.events),
                         committed |-> s.r.committed, nid |-> s.r.nid]
        /\ hist' = Heard(hist, r.op, "server", r.rid, Envelopes(sent))
        /\ UNCHANGED <<now, members>>

Serving == \E i \in DOMAIN procs : Handle(i)

\* the response leaves the server
Sent ==
    /\ last \notin {NoLast, StartupFailed}
    /\ last' = NoLast
    /\ UNCHANGED <<db, nextId, now, members, procs, lock, hist>>

CreateLabReportReq(maxIds, faults) ==
    \E v \in Variations("create_lab_report", ReportBodies, Obj(ReportFields, "b"), faults) :
        Accept(1, maxIds, NewRequest(0, "create_lab_report", v[1], 0, 0, 0, v[2]), v[3])

GetLabReportReq(maxIds, faults) ==
    \E rid \in Named(db.lab_reports),
       v \in Variations("get_lab_report", {NoData}, NoData, faults) :
        Accept(1, maxIds, NewRequest(0, "get_lab_report", v[1], rid, 0, 0, v[2]), v[3])

UpdateLabReportReq(maxIds, faults) ==
    \E rid \in Named(db.lab_reports),
       v \in Variations("update_lab_report", ReportBodies, Obj(ReportFields, "b"), faults) :
        Accept(1, maxIds, NewRequest(0, "update_lab_report", v[1], rid, 0, 0, v[2]), v[3])

DeleteLabReportReq(maxIds, faults) ==
    \E rid \in Named(db.lab_reports),
       v \in Variations("delete_lab_report", {NoData}, NoData, faults) :
        Accept(1, maxIds, NewRequest(0, "delete_lab_report", v[1], rid, 0, 0, v[2]), v[3])

AddQuestionReq(maxIds, faults) ==
    \E rid \in Named(db.lab_reports),
       v \in Variations("add_question", QuestionBodies, Obj(QuestionFields, "b"), faults) :
        Accept(1, maxIds, NewRequest(0, "add_question", v[1], rid, 0, 0, v[2]), v[3])

AddSubtopicReq(maxIds, faults) ==
    \E rid \in Named(db.lab_reports), qid \in Named(db.questions),
       v \in Variations("add_subtopic", SubtopicBodies, Obj(SubtopicFields, "b"), faults) :
        Accept(1, maxIds, NewRequest(0, "add_subtopic", v[1], rid, qid, 0, v[2]), v[3])

UpdateSubtopicReq(maxIds, faults) ==
    \E rid \in Named(db.lab_reports), qid \in Named(db.questions),
       sid \in Named(db.subtopics),
       v \in Variations("update_subtopic", SubtopicBodies, Obj(SubtopicFields, "b"), faults) :
        Accept(1, maxIds, NewRequest(0, "update_subtopic", v[1], rid, qid, sid, v[2]), v[3])

UpdateQuestionReq(maxIds, faults) ==
    \E rid \in Named(db.lab_reports), qid \in Named(db.questions),
       v \in Variations("update_question", QuestionBodies, Obj(QuestionFields, "b"), faults) :
        Accept(1, maxIds, NewRequest(0, "update_question", v[1], rid, qid, 0, v[2]), v[3])

Request(maxIds, faults) ==
    \/ CreateLabReportReq(maxIds, faults)
    \/ GetLabReportReq(maxIds, faults)
    \/ UpdateLabReportReq(maxIds, faults)
    \/ DeleteLabReportReq(maxIds, faults)
    \/ AddQuestionReq(maxIds, faults)
    \/ AddSubtopicReq(maxIds, faults)
    \/ UpdateSubtopicReq(maxIds, faults)
    \/ UpdateQuestionReq(maxIds, faults)

\* a second of the clock behind CURRENT_TIMESTAMP passes
Tick ==
    /\ now < MaxClock
    /\ last = NoLast
    /\ now' = now + 1
    /\ UNCHANGED <<db, nextId, members, last, procs, lock, hist>>

(***************************************************************************)
(* The Socket.IO handlers.                                                 *)
(***************************************************************************)
\* emit('message', ...) inside a handler: to the client that sent the message
Message(c) == <<[name |-> "message", room |-> Sid(c), to |-> {c}]>>

SocketLast(op, room, evs) ==
    [NoLast EXCEPT !.req.op = op, !.req.rid = room, !.pre = db, !.events = evs]

\* @socketio.on('join')
HandleJoin(c, room) ==
    /\ last = NoLast
    /\ members' = IF room # 0 THEN members \cup {<<c, room>>} ELSE members
    /\ last' = SocketLast("join", room, IF room # 0 THEN Message(c) ELSE <<>>)
    /\ hist' = Heard(hist, "join", c, room, IF room # 0 THEN Message(c) ELSE <<>>)
    /\ UNCHANGED <<db, nextId, now, procs, lock>>

\* a leave that leaves the client in the room
HandleLeaveStays(c, room) ==
    /\ last = NoLast
    /\ members' = members
    /\ last' = SocketLast("leave", room, IF room # 0 THEN Message(c) ELSE <<>>)
    /\ hist' = Heard(hist, "leave", c, room, IF room # 0 THEN Message(c) ELSE <<>>)
    /\ UNCHANGED <<db, nextId, now, procs, lock>>

\* @socketio.on('leave')
HandleLeave(c, room) ==
    /\ last = NoLast
    /\ members' = IF room # 0 THEN members \ {<<c, room>>} ELSE members
    /\ last' = SocketLast("leave", room, IF room # 0 THEN Message(c) ELSE <<>>)
    /\ hist' = Heard(hist, "leave", c, room, IF room # 0 THEN Message(c) ELSE <<>>)
    /\ UNCHANGED <<db, nextId, now, procs, lock>>

Join == \E c \in Clients, room \in RoomNames : HandleJoin(c, room)

Leave == \E c \in Clients, room \in RoomNames : HandleLeave(c, room)

(***************************************************************************)
(* Spec: a server with one worker, which serves one request at a time,     *)
(* call by call, all within one second.  SpecClock adds the passing of     *)
(* time.  SpecRooms follows the requests for one report with one question  *)
(* and one subtopic, as three requests of Spec leave them, while clients   *)
(* join and leave rooms between the requests and between the calls of a    *)
(* request.  Requests served at the same time are followed in SpecConc.    *)
(***************************************************************************)
Next ==
    \/ Request(MaxIds, TRUE)
    \/ Serving
    \/ Sent

Spec == Init /\ [][Next]_vars

NextDeep ==
    \/ Request(MaxIdsDeep, FALSE)
    \/ Serving
    \/ Sent

SpecDeep == Init /\ [][NextDeep]_vars

\* the requests a client sends for the seeded report, its question and its
\* subtopic, and for a new report: each without a token, with a token that
\* fails verification and with a user's token
RoomRequests ==
    UNION {{NewRequest(0, "create_lab_report", a, 0, 0, 0, Obj(ReportFields, "b")),
            NewRequest(0, "get_lab_report", a, 1, 0, 0, NoData),
            NewRequest(0, "update_lab_report", a, 1, 0, 0, Obj(ReportFields, "b")),
            NewRequest(0, "delete_lab_report", a, 1, 0, 0, NoData),
            NewRequest(0, "add_question", a, 1, 0, 0, Obj(QuestionFields, "b")),
            NewRequest(0, "add_subtopic", a, 1, 2, 0, Obj(SubtopicFields, "b")),
            NewRequest(0, "update_subtopic", a, 1, 2, 3, Obj(SubtopicFields, "b")),
            NewRequest(0, "update_question", a, 1, 2, 0, Obj(QuestionFields, "b"))} :
           a \in Auths}

RoomRequest == \E req \in RoomRequests : Accept(1, MaxIdsRooms, req, "none")

NextRooms ==
    \/ RoomRequest
    \/ Serving
    \/ Sent
    \/ Join
    \/ Leave

InitRooms == Startup(SeedSubtopic.db, SeedSubtopic.nextId, {}, Worker, <<>>)

SpecRooms == InitRooms /\ [][NextRooms]_vars

NextClock ==
    \/ Request(MaxIdsClock, FALSE)
    \/ Serving
    \/ Sent
    \/ Tick

SpecClock == Init /\ [][NextClock]_vars

(***************************************************************************)
(* SpecConc: MaxConcRequests requests served at the same time, each by a   *)
(* worker of its own with a connection of its own (get_db opens one per    *)
(* request); the workers interleave between their calls.  The store starts *)
(* with one report of one question of one subtopic, as three requests of   *)
(* Spec leave it, and client c1 has joined the report's room.              *)
(***************************************************************************)
Slots == 1..MaxConcRequests

InitConc ==
    Startup(SeedSubtopic.db, SeedSubtopic.nextId, {<<"c1", 1>>},
            [i \in Slots |-> IdleProc(i)],
            [commits |-> <<>>, inbox |-> [c \in Clients |-> <<>>], raced |-> {}])

\* the mutations a client sends for the seeded report
ConcRequests(i) ==
    {NewRequest(i, "update_lab_report", "admin", 1, 0, 0, Obj(ReportFields, "b")),
     NewRequest(i, "delete_lab_report", "admin", 1, 0, 0, NoData),
     NewRequest(i, "add_question", "admin", 1, 0, 0, Obj(QuestionFields, "b")),
     NewRequest(i, "add_subtopic", "admin", 1, 2, 0, Obj(SubtopicFields, "b")),
     NewRequest(i, "update_subtopic", "admin", 1, 2, 3, Obj(SubtopicFields, "b")),
     NewRequest(i, "update_question", "admin", 1, 2, 0, Obj(QuestionFields, "b"))}

\* a request reaches worker i
Arrive(i) ==
    /\ last = NoLast
    /\ procs[i].pc = "idle"
    /\ \E req \in ConcRequests(i) : procs' = [procs EXCEPT ![i] = req]
    /\ UNCHANGED <<db, nextId, now, members, last, lock, hist>>

\* the rows the WHERE id = ? of r's UPDATE statement selects in d
Target(d, r) ==
    CASE r.op = "update_lab_report" -> SelectReport(d, r.rid)
      [] r.op = "update_question"   -> SelectQuestion(d, r.qid)
      [] r.op = "update_subtopic"   -> SelectSubtopic(d, r.sid)
      [] OTHER                      -> <<>>

\* worker i makes the next call of its handler; the history keeps the order
\* of the commits, what each client received, and the workers whose UPDATE
\* ran after the row it had found was deleted
Call(i, raises) ==
    LET r == procs[i]
        w == World(db, lock, nextId, now, members)
        s == Step(r, w, raises)
        sent == SubSeq(s.r.events, Len(r.events) + 1, Len(s.r.events))
    IN  /\ r.pc \notin {"idle", "done"}
        /\ raises \/ ~Blocked(r, w)
        /\ procs' = [procs EXCEPT ![i] = s.r]
        /\ db' = s.w.db
        /\ lock' = s.w.lock
        /\ nextId' = s.w.nextId
        /\ hist' = [commits |-> IF s.r.committed /\ ~r.committed
                                THEN Append(hist.commits, i) ELSE hist.commits,
                    inbox |-> [c \in Clients |->
                        IF sent # <<>> /\ c \in sent[1].to
                        THEN Append(hist.inbox[c], [by |-> i, name |-> sent[1].name,
                                                    room |-> sent[1].room])
                        ELSE hist.inbox[c]],
                    raced |-> IF /\ r.pc = "update"
                                 /\ s.r.pc = "commit"
                                 /\ Target(View(r, w), r) = <<>>
                              THEN hist.raced \cup {i} ELSE hist.raced]
        /\ UNCHANGED <<now, members, last>>

NextConc ==
    \/ \E i \in Slots : Arrive(i)
    \/ \E i \in Slots : Call(i, FALSE)
    \/ \E i \in Slots : Call(i, TRUE)

SpecConc == InitConc /\ [][NextConc]_vars

(***************************************************************************)
(* SpecRace: the workers and the store of SpecConc, serving the updates of *)
(* the seeded report, question and subtopic beside the delete of the       *)
(* report.  Each update comes with a full body and with a body that        *)
(* carries a null for a column declared NOT NULL.                          *)
(***************************************************************************)
RaceRequests(i) ==
    {NewRequest(i, "delete_lab_report", "admin", 1, 0, 0, NoData),
     NewRequest(i, "update_lab_report", "admin", 1, 0, 0, Obj(ReportFields, "b")),
     NewRequest(i, "update_subtopic", "admin", 1, 2, 3, Obj(SubtopicFields, "b")),
     NewRequest(i, "update_question", "admin", 1, 2, 0, Obj(QuestionFields, "b")),
     NewRequest(i, "update_lab_report", "admin", 1, 0, 0,
                ObjNullAt(ReportFields, "b", "number")),
     NewRequest(i, "update_subtopic", "admin", 1, 2, 3,
                ObjNullAt(SubtopicFields, "b", "title")),
     NewRequest(i, "update_question", "admin", 1, 2, 0,
                ObjNullAt(QuestionFields, "b", "number"))}

\* an update or the delete reaches worker i
ArriveRace(i) ==
    /\ last = NoLast
    /\ procs[i].pc = "idle"
    /\ \E req \in RaceRequests(i) : procs' = [procs EXCEPT ![i] = req]
    /\ UNCHANGED <<db, nextId, now, members, last, lock, hist>>

NextRace ==
    \/ \E i \in Slots : ArriveRace(i)
    \/ \E i \in Slots : Call(i, FALSE)
    \/ \E i \in Slots : Call(i, TRUE)

SpecRace == InitConc /\ [][NextRace]_vars

(***************************************************************************)
(* SpecOrder: questions and subtopics added to one report over the seconds *)
(* of the clock, and the report read back.  The store starts with report 1 *)
(* as created by a request of Spec.                                        *)
(***************************************************************************)
InitOrder == Startup(SeedReport.db, SeedReport.nextId, {}, Worker, <<>>)

\* the requests a client sends for report 1 and the questions it has
OrderRequests ==
    {NewRequest(0, "add_question", "admin", 1, 0, 0, Obj(QuestionFields, "a")),
     NewRequest(0, "update_lab_report", "admin", 1, 0, 0, Obj(ReportFields, "b")),
     NewRequest(0, "get_lab_report", "admin", 1, 0, 0, NoData)}
    \cup {NewRequest(0, "add_subtopic", "admin", 1, qid, 0, Obj({"title"}, "a")) :
              qid \in RowIds(db.questions)}
    \cup {NewRequest(0, "update_question", "admin", 1, qid, 0, Obj(QuestionFields, "b")) :
              qid \in RowIds(db.questions)}

OrderRequest == \E req \in OrderRequests : Accept(1, MaxIdsOrder, req, "none")

NextOrder ==
    \/ OrderRequest
    \/ Serving
    \/ Sent
    \/ Tick

SpecOrder == InitOrder /\ [][NextOrder]_vars

(***************************************************************************)
(* Updates of subtopics, one request at a time, of a store that holds one  *)
(* report with one question and one subtopic, while the clock advances.    *)
(***************************************************************************)
InitSubtopic == Startup(SeedSubtopic.db, SeedSubtopic.nextId, {}, Worker, <<>>)

NextSubtopic ==
    \/ UpdateSubtopicReq(MaxIds, TRUE)
    \/ Serving
    \/ Sent
    \/ Tick

SpecSubtopic == InitSubtopic /\ [][NextSubtopic]_vars

(***************************************************************************)
(* SpecReplay: clients join and leave rooms while report 1 is updated, and *)
(* hist follows what every client is sent.                                 *)
(***************************************************************************)
InitReplay ==
    Startup(SeedReport.db, SeedReport.nextId, {}, Worker,
            [log |-> <<>>, inbox |-> [c \in Clients |-> <<>>]])

ReplayRequest ==
    Accept(1, MaxIds,
           NewRequest(0, "update_lab_report", "admin", 1, 0, 0, Obj(ReportFields, "b")),
           "none")

NextReplay ==
    \/ Len(hist.log) < MaxLog /\ ReplayRequest
    \/ Serving
    \/ Len(hist.log) < MaxLog /\ Join
    \/ Len(hist.log) < MaxLog /\ Leave
    \/ Sent

SpecReplay == InitReplay /\ [][NextReplay]_vars

(***************************************************************************)
(* Properties of the server with one worker (Spec).                        *)
(***************************************************************************)
\* GET /api/lab-reports/<rid> sent now, alone, with a valid token
GetNow(rid) ==
    Run(NewRequest(0, "get_lab_report", "admin", rid, 0, 0, NoData),
        World(db, 0, nextId, now, members), "none").r

\* the ids of the questions report rid has in database d
QuestionIdsOf(d, rid) ==
    RowIds(SelectSeq(d.questions, LAMBDA q : q.lab_report_id = rid))

\* the ids of the subtopics below report rid in database d
SubtopicIdsOf(d, rid) ==
    RowIds(SelectSeq(d.subtopics, LAMBDA s : s.question_id \in QuestionIdsOf(d, rid)))

DeleteSucceeded == last.req.op = "delete_lab_report" /\ last.status = 200

\* C2: in every state between two requests (and with a response pending),
\* every question's lab_report_id is the id of a report of the store and
\* every subtopic's question_id is the id of a question of the store.
NoOrphans ==
    /\ \A q \in RowSet(db.questions) : q.lab_report_id \in RowIds(db.lab_reports)
    /\ \A s \in RowSet(db.subtopics) : s.question_id \in RowIds(db.questions)

\* a delete has removed one report with its question while another report
\* stays
DeletedBesideAnotherReport ==
    /\ DeleteSucceeded
    /\ QuestionIdsOf(last.pre, last.req.rid) # {}
    /\ db.lab_reports # <<>>

\* the calls of delete_lab_report up to and including its commit
DeleteCallsToCommit ==
    {"begin", "del_subtopics", "del_questions", "del_report", "commit"}

\* C3: a delete of report R that fails at one of its three DELETE statements
\* or at its commit leaves the store as the request found it, and whatever
\* the outcome of a delete, either the store is as the request found it or R
\* and everything below it is gone and nothing else has changed.
DeleteIsAllOrNothing ==
    last.req.op = "delete_lab_report" =>
        /\ last.fault \in DeleteCallsToCommit => db = last.pre
        /\ \/ db = last.pre
           \/ db = DeleteReport(DeleteQuestionsOfReport(
                       DeleteSubtopicsOfReport(last.pre, last.req.rid),
                       last.req.rid), last.req.rid)

\* the commit of a delete of a report with a question and a subtopic raised,
\* after the three statements had run
DeleteFailedAtCommit ==
    /\ last.req.op = "delete_lab_report"
    /\ last.fault = "commit"
    /\ last.status = 500
    /\ SubtopicIdsOf(last.pre, last.req.rid) # {}

Mutations ==
    {"update_lab_report", "delete_lab_report", "add_question", "update_question",
     "add_subtopic", "update_subtopic"}

\* C4: a mutation (update/delete of a report, add/update of a question or of a
\* subtopic) answered 200 or 201 has emitted exactly one event, to the room of
\* the report it names; one answered 400, 404 or 500 has emitted none.
OneEventPerSuccess ==
    last.req.op \in Mutations =>
        /\ last.status \in {200, 201} =>
               Len(last.events) = 1 /\ last.events[1].room = last.req.rid
        /\ last.status \in {400, 404, 500} => last.events = <<>>

\* a subtopic has been updated and announced
SubtopicUpdateAnnounced ==
    /\ last.req.op = "update_subtopic"
    /\ last.status = 200
    /\ Len(last.events) = 1

(***************************************************************************)
(* Properties of the rooms (SpecRooms).                                    *)
(***************************************************************************)
\* the clients that are members of `room` now
MembersOf(room) == {c \in Clients : <<c, room>> \in members}

\* the rooms client c has joined
RoomsOf(c) == {room \in RoomNames : <<c, room>> \in members}

\* C5: every event of a mutation under report R is delivered to exactly the
\* clients that are members of room R when it is emitted: a client that has
\* joined only other rooms is not among them, a client that has joined R and
\* other rooms is.
EventsReachTheirRoomOnly ==
    last.req.op \in Mutations =>
        \A i \in 1..Len(last.events) :
            /\ last.events[i].to = MembersOf(last.req.rid)
            /\ \A c \in Clients :
                   /\ last.req.rid \notin RoomsOf(c) => c \notin last.events[i].to
                   /\ last.req.rid \in RoomsOf(c) => c \in last.events[i].to

\* an event for room 1 went to c1, who has joined rooms 1 and 2, and not to
\* c2, who has joined room 2 only
EventPassedByOtherRoom ==
    /\ last.req.op \in Mutations
    /\ last.req.rid = 1
    /\ Len(last.events) = 1
    /\ RoomsOf("c1") = {1, 2}
    /\ RoomsOf("c2") = {2}
    /\ last.events[1].to = {"c1"}

(***************************************************************************)
(* Properties of the checks a handler makes before it writes.              *)
(***************************************************************************)
\* the request names a report, or a question of a report, or a subtopic of a
\* question of a report, that database d does not hold
AncestryMissing(d, req) ==
    CASE req.op \in {"update_lab_report", "add_question"} ->
           req.rid \notin RowIds(d.lab_reports)
      [] req.op \in {"add_subtopic", "update_question"} ->
           ~ \E q \in RowSet(d.questions) :
                 /\ q.id = req.qid
                 /\ q.lab_report_id = req.rid
                 /\ req.rid \in RowIds(d.lab_reports)
      [] req.op = "update_subtopic" ->
           ~ \E s \in RowSet(d.subtopics), q \in RowSet(d.questions) :
                 /\ s.id = req.sid
                 /\ s.question_id = req.qid
                 /\ q.id = req.qid
                 /\ q.lab_report_id = req.rid
                 /\ req.rid \in RowIds(d.lab_reports)
      [] OTHER -> FALSE

\* the body is no object (no JSON at all, or null), or an object without a
\* field the handler requires
LacksRequiredField(req) ==
    CASE req.op \in {"create_lab_report", "update_lab_report"} ->
           Falsy(req.data) \/ \E k \in ReportFields : ~Has(req.data, k)
      [] req.op \in {"add_question", "update_question"} ->
           Falsy(req.data) \/ \E k \in QuestionFields : ~Has(req.data, k)
      [] req.op \in {"add_subtopic", "update_subtopic"} ->
           ~Has(req.data, "title")
      [] OTHER -> FALSE

\* a request with a valid token, served without a failure of the store or
\* of the notifier, that names a missing ancestry and lacks a required field
MissingBoth ==
    /\ TokenOk(last.req)
    /\ last.fault = "none"
    /\ AncestryMissing(last.pre, last.req)
    /\ LacksRequiredField(last.req)

\* C6 as stated: every mutation that names a missing ancestry and lacks a
\* required field is answered 404.
ExistenceCheckedFirst ==
    MissingBoth => last.status = 404

\* C6: every mutation reads the body before it looks anything up, so such a
\* request without JSON, whose reading raises, is answered 500; of the
\* requests whose body is read, update_question, add_subtopic and
\* update_subtopic check the ancestry first and answer 404, update_lab_report
\* and add_question check the body first and answer 400.
ValidationOrder ==
    MissingBoth =>
        IF last.req.data = NoJson THEN last.status = 500
        ELSE /\ last.req.op \in {"update_question", "add_subtopic", "update_subtopic"}
                    => last.status = 404
             /\ last.req.op \in {"update_lab_report", "add_question"}
                    => last.status = 400

\* a question without its statement was sent for a report that does not
\* exist, and the answer was 400
BodyCheckedBeforeReport ==
    /\ MissingBoth
    /\ last.req.op = "add_question"
    /\ last.req.data.kind = "object"
    /\ last.status = 400

\* C7: when the emit of a mutation raises after the write has been
\* committed, the caller still gets the success response (200 or 201).
EmitFailureKeepsSuccess ==
    (last.req.op \in Mutations /\ last.fault = "emit" /\ last.committed)
        => last.status \in {200, 201}

\* C9: update_subtopic (valid token, any body) answers 200 only if the subtopic's
\* question_id is the question of the request and that question's
\* lab_report_id is the report of the request; otherwise, also when subtopic,
\* question and report all exist, it answers 404, the store is unchanged and
\* no event is emitted.
UpdateSubtopicNeedsAncestry ==
    (last.req.op = "update_subtopic" /\ TokenOk(last.req)) =>
        /\ last.status = 200 => ~AncestryMissing(last.pre, last.req)
        /\ AncestryMissing(last.pre, last.req) =>
               /\ last.status = 404
               /\ db = last.pre
               /\ last.events = <<>>

\* C10: update_question and add_subtopic (valid token, any body, the lookup
\* itself not failing) answer 404, leave the store unchanged and emit no
\* event whenever the question does not exist or its lab_report_id is not the
\* report of the request, also when question and report both exist.
QuestionMustBelongToReport ==
    (/\ last.req.op \in {"update_question", "add_subtopic"}
     /\ TokenOk(last.req)
     /\ last.fault # "begin"
     /\ AncestryMissing(last.pre, last.req)) =>
        /\ last.status = 404
        /\ db = last.pre
        /\ last.events = <<>>

(***************************************************************************)
(* Properties of concurrent requests (SpecConc).                           *)
(***************************************************************************)
\* worker i committed before worker j did
CommittedBefore(i, j) ==
    \E a, b \in 1..Len(hist.commits) :
        a < b /\ hist.commits[a] = i /\ hist.commits[b] = j

\* C8: of two mutations under one report committed in the order T1, T2 by
\* requests served at the same time, every member of the report's room gets
\* the event of T1 before the event of T2.
EventsInCommitOrder ==
    \A c \in Clients :
        \A a, b \in 1..Len(hist.inbox[c]) :
            a < b => ~CommittedBefore(hist.inbox[c][b].by, hist.inbox[c][a].by)

(***************************************************************************)
(* Properties of the documents the handlers return.                        *)
(***************************************************************************)
\* the request of `last` served again on the state it found: its response
\* with its body and the payloads of its events
Replayed ==
    Run(last.req,
        World(last.pre, 0, IF last.nid = 0 THEN nextId ELSE last.nid, now, members),
        last.fault).r

\* the questions report rid had when the request arrived, in the order they
\* were added
EarlierQuestions(rid) ==
    SelectSeq(last.pre.questions, LAMBDA q : q.lab_report_id = rid)

AddQuestionSucceeded == last.req.op = "add_question" /\ last.status = 201

\* C11: after a successful add_question under report R, a get of R lists the
\* questions R had before in the order they were added and, after all of them
\* (also after one of the same created_at), the question just returned, with
\* an empty list of subtopics.
AddedQuestionIsListedLast ==
    AddQuestionSucceeded =>
        LET listed == GetNow(last.req.rid).body.questions
            n == Len(EarlierQuestions(last.req.rid))
        IN  /\ Len(listed) = n + 1
            /\ listed[n + 1].id = Replayed.body.id
            /\ listed[n + 1].id = last.nid
            /\ listed[n + 1].subtopics = <<>>
            /\ Replayed.body.subtopics = <<>>
            /\ \A i \in 1..n : listed[i].id = EarlierQuestions(last.req.rid)[i].id

\* a question was added to a report that has a question of the same second
AddedQuestionAfterTie ==
    /\ AddQuestionSucceeded
    /\ \E q \in RowSet(last.pre.questions) :
           /\ q.lab_report_id = last.req.rid
           /\ q.created_at = SelectQuestion(db, last.nid)[1].created_at

\* C12: a request answered 404 or 400 has written nothing: the three tables
\* are as the request found them.
NoWriteBeforeError ==
    (last.req.op \in Ops /\ last.status \in {400, 404}) => db = last.pre

\* a question with a complete body was refused for a missing report while the
\* store holds another report
AddQuestionRefusedWithFullBody ==
    /\ last.req.op = "add_question"
    /\ last.status = 404
    /\ ~LacksRequiredField(last.req)
    /\ last.pre.lab_reports # <<>>

\* C13: a create or a mutation (valid token, existing ancestry, no failure of
\* the store) whose body is missing or lacks a required field is answered 400,
\* never 500.
MissingFieldIsValidationError ==
    (/\ last.req.op \in Mutations \cup {"create_lab_report"}
     /\ TokenOk(last.req)
     /\ last.fault = "none"
     /\ ~AncestryMissing(last.pre, last.req)
     /\ LacksRequiredField(last.req)) =>
        last.status = 400

\* where the row of identifier id stands in table t (rows stand in the order
\* they were inserted)
Pos(t, id) == CHOOSE k \in 1..Len(t) : t[k].id = id

\* `list` holds exactly the rows of t that `ids` names, by ascending
\* created_at, rows of one created_at in the order they were inserted
InCreationOrder(list, t, ids) ==
    /\ Len(list) = Cardinality(ids)
    /\ {list[i].id : i \in 1..Len(list)} = ids
    /\ \A i, j \in 1..Len(list) :
           i < j => /\ list[i].created_at <= list[j].created_at
                    /\ list[i].created_at = list[j].created_at
                           => Pos(t, list[i].id) < Pos(t, list[j].id)

\* the questions of a report document and the subtopics of each of them
ReportInCreationOrder(doc) ==
    /\ InCreationOrder(doc.questions, db.questions, QuestionIdsOf(db, doc.id))
    /\ \A i \in 1..Len(doc.questions) :
           InCreationOrder(doc.questions[i].subtopics, db.subtopics,
               {x.id : x \in {y \in RowSet(db.subtopics) :
                                  y.question_id = doc.questions[i].id}})

\* the subtopics of a question document
QuestionInCreationOrder(doc) ==
    InCreationOrder(doc.subtopics, db.subtopics,
        {x.id : x \in {y \in RowSet(db.subtopics) : y.question_id = doc.id}})

\* C14: the document a successful get_lab_report or update_lab_report
\* returns, the one update_lab_report broadcasts, and the question a
\* successful update_question returns and broadcasts, list the children of
\* every parent by ascending creation time, children of one creation time in
\* the order they were inserted.
DocumentsInCreationOrder ==
    /\ (last.req.op \in {"get_lab_report", "update_lab_report"} /\ last.status = 200)
           => ReportInCreationOrder(Replayed.body)
    /\ (last.req.op = "update_lab_report" /\ last.status = 200)
           => /\ Len(Replayed.events) = 1
              /\ ReportInCreationOrder(Replayed.events[1].payload)
    /\ (last.req.op = "update_question" /\ last.status = 200)
           => /\ QuestionInCreationOrder(Replayed.body)
              /\ Len(Replayed.events) = 1
              /\ QuestionInCreationOrder(Replayed.events[1].payload)

\* a question with two subtopics of one second and a third of a later one
\* was updated and returned
UpdatedQuestionWithSubtopics ==
    /\ last.req.op = "update_question"
    /\ last.status = 200
    /\ Len(Replayed.body.subtopics) = 3
    /\ Replayed.body.subtopics[1].created_at = Replayed.body.subtopics[2].created_at
    /\ Replayed.body.subtopics[2].created_at < Replayed.body.subtopics[3].created_at

\* C15: get_lab_report changes nothing in the store and emits no event,
\* whatever its outcome, and a second get of the same report right after a
\* successful one returns the same document (fields, questions and subtopics
\* in the same order).
GetIsReadOnly ==
    last.req.op = "get_lab_report" =>
        /\ db = last.pre
        /\ last.nid = 0
        /\ last.events = <<>>
        /\ ~last.committed
        /\ last.status = 200 =>
               /\ GetNow(last.req.rid).status = 200
               /\ GetNow(last.req.rid).body = Replayed.body

\* a report with a question and a subtopic was read
GotNestedReport ==
    /\ last.req.op = "get_lab_report"
    /\ last.status = 200
    /\ Len(Replayed.body.questions) = 1
    /\ Len(Replayed.body.questions[1].subtopics) = 1

\* the identifiers of the rows of table t, in the order of the rows
IdsInOrder(t) == [i \in 1..Len(t) |-> t[i].id]

\* C16: update_lab_report of report R, whatever its outcome, leaves the
\* questions and subtopics tables and every other report as they were, and
\* R's id, created_by and created_at; when it succeeds R has the number,
\* statement and authors of the body.  No update_lab_report, update_question
\* or update_subtopic changes the identifier of any row.
UpdateReportTouchesScalarsOnly ==
    /\ last.req.op = "update_lab_report" =>
           /\ db.questions = last.pre.questions
           /\ db.subtopics = last.pre.subtopics
           /\ Len(db.lab_reports) = Len(last.pre.lab_reports)
           /\ \A i \in 1..Len(db.lab_reports) :
                  LET old == last.pre.lab_reports[i]
                      new == db.lab_reports[i]
                  IN  /\ new.id = old.id
                      /\ new.created_by = old.created_by
                      /\ new.created_at = old.created_at
                      /\ old.id # last.req.rid => new = old
                      /\ (old.id = last.req.rid /\ last.status = 200) =>
                             \A k \in ReportFields : new[k] = last.req.data.f[k]
    /\ last.req.op \in {"update_lab_report", "update_question", "update_subtopic"} =>
           /\ IdsInOrder(db.lab_reports) = IdsInOrder(last.pre.lab_reports)
           /\ IdsInOrder(db.questions) = IdsInOrder(last.pre.questions)
           /\ IdsInOrder(db.subtopics) = IdsInOrder(last.pre.subtopics)

\* one of two reports was given new fields
UpdatedOneOfTwoReports ==
    /\ last.req.op = "update_lab_report"
    /\ last.status = 200
    /\ Len(last.pre.lab_reports) = 2
    /\ db # last.pre

(***************************************************************************)
(* Properties of what a client is sent over time (SpecReplay).             *)
(***************************************************************************)
\* when the k-th handler of the log ran, client c was in `room`: it had
\* joined it and not left it since
MemberAt(c, room, k) ==
    \E j \in 1..(k - 1) :
        /\ hist.log[j] = [kind |-> "join", c |-> c, room |-> room]
        /\ \A i \in (j + 1)..(k - 1) :
               hist.log[i] # [kind |-> "leave", c |-> c, room |-> room]

\* the events of mutations client c has been sent
Broadcasts(c) == SelectSeq(hist.inbox[c], LAMBDA e : e.name # "message")

\* C17: every event of a mutation a client has been sent was emitted while
\* the client was in the event's room: an event emitted before the client
\* joined the room is never sent to it, nor is one emitted after it left.
NoReplayOfMissedEvents ==
    \A c \in Clients :
        \A i \in 1..Len(Broadcasts(c)) :
            MemberAt(c, Broadcasts(c)[i].room, Broadcasts(c)[i].at)

\* report 1 was updated three times; c1 joined room 1 after the first update
\* and left it after the second, and has been sent the second only
JoinedLateAndLeftEarly ==
    /\ Len(hist.log) = 5
    /\ hist.log[1].kind = "update_lab_report"
    /\ hist.log[2] = [kind |-> "join", c |-> "c1", room |-> 1]
    /\ hist.log[3].kind = "update_lab_report"
    /\ hist.log[4] = [kind |-> "leave", c |-> "c1", room |-> 1]
    /\ hist.log[5].kind = "update_lab_report"
    /\ Len(Broadcasts("c1")) = 1
    /\ Broadcasts("c1")[1].at = 3

(***************************************************************************)
(* Properties of the rows the handlers store.                              *)
(***************************************************************************)
\* C18: the subtopic a successful add_subtopic has stored has a string in
\* each of its optional columns, never NULL: the value of the body, or the
\* empty string where the body gives none (or gives null).
OptionalFieldsAreStrings ==
    (last.req.op = "add_subtopic" /\ last.status = 201) =>
        \A s \in RowSet(db.subtopics) :
            s.id = last.nid =>
                \A k \in SubtopicOptional :
                    /\ s[k] # Null
                    /\ ~Has(last.req.data, k) => s[k] = ""

\* C19, the create: the report a successful create_lab_report returns has
\* the number, statement and authors of the body, the caller as created_by
\* and no questions, and is the report stored.
CreatedAsAsked ==
    (last.req.op = "create_lab_report" /\ last.status = 201) =>
        /\ \A k \in ReportFields : Replayed.body[k] = last.req.data.f[k]
        /\ Replayed.body.created_by = last.req.auth
        /\ Replayed.body.questions = <<>>
        /\ Replayed.body.id = last.nid
        /\ GetNow(last.nid).status = 200
        /\ GetNow(last.nid).body = Replayed.body

\* C19, the read back: once a subtopic titled T is added to the only
\* question of a report that had no subtopic, a get of the report returns one
\* question holding one subtopic, titled T.
OneQuestionOneSubtopic ==
    (/\ last.req.op = "add_subtopic"
     /\ last.status = 201
     /\ Cardinality(QuestionIdsOf(last.pre, last.req.rid)) = 1
     /\ SubtopicIdsOf(last.pre, last.req.rid) = {}) =>
        LET doc == GetNow(last.req.rid)
        IN  /\ doc.status = 200
            /\ Len(doc.body.questions) = 1
            /\ doc.body.questions[1].id = last.req.qid
            /\ Len(doc.body.questions[1].subtopics) = 1
            /\ doc.body.questions[1].subtopics[1].id = last.nid
            /\ doc.body.questions[1].subtopics[1].title = last.req.data.f["title"]

\* C19, the delete: after a successful delete_lab_report neither the
\* report's id, nor the id of one of its questions, nor the id of one of
\* their subtopics is in the store.
DeletedIdsAreGone ==
    DeleteSucceeded =>
        /\ last.req.rid \notin RowIds(db.lab_reports)
        /\ QuestionIdsOf(last.pre, last.req.rid) \cap RowIds(db.questions) = {}
        /\ SubtopicIdsOf(last.pre, last.req.rid) \cap RowIds(db.subtopics) = {}

\* C19: a created report is the one asked for, by the caller, with no
\* questions; with one question and one subtopic titled T added, a get
\* returns exactly that; after the delete none of the three ids is stored.
ScenarioContract ==
    /\ CreatedAsAsked
    /\ OneQuestionOneSubtopic
    /\ DeletedIdsAreGone

\* the scenario at its last step: the report created first, with its one
\* question and its one subtopic, has just been deleted and the store is empty
ScenarioPlayed ==
    /\ DeleteSucceeded
    /\ last.req.rid = 1
    /\ QuestionIdsOf(last.pre, 1) = {2}
    /\ SubtopicIdsOf(last.pre, 1) = {3}
    /\ db = EmptyDb

\* the questions and the subtopics a request has removed from the store
RemovedQuestions == {q \in RowSet(last.pre.questions) : q.id \notin RowIds(db.questions)}

RemovedSubtopics == {x \in RowSet(last.pre.subtopics) : x.id \notin RowIds(db.subtopics)}

\* C20: whenever a request removes a question, it removes that question and
\* its subtopics and leaves its report and the report's other questions as
\* they were; whenever a request removes a subtopic of a question that stays,
\* it removes that subtopic only.
RemovedWithoutParentOrSiblings ==
    /\ \A q \in RemovedQuestions :
           /\ \E r \in RowSet(db.lab_reports) :
                  r.id = q.lab_report_id /\ r \in RowSet(last.pre.lab_reports)
           /\ \A q2 \in RowSet(last.pre.questions) \ {q} : q2 \in RowSet(db.questions)
           /\ \A x \in RowSet(db.subtopics) : x.question_id # q.id
    /\ \A x \in RemovedSubtopics :
           /\ x.question_id \in RowIds(db.questions)
           /\ \A x2 \in RowSet(last.pre.subtopics) \ {x} : x2 \in RowSet(db.subtopics)

(***************************************************************************)
(* Properties of requests racing with a delete (SpecConc).                 *)
(***************************************************************************)
\* worker i has answered its request
Answered(i) == procs[i].pc = "done"

\* C1: once a delete of report R is answered 200, a get of R answers 404, no
\* question of the store has lab_report_id R, and no subtopic of the store has
\* as its question_id the id of a question R had or has.
DeletedReportIsGone ==
    \A j \in Slots :
        (procs[j].op = "delete_lab_report" /\ Answered(j) /\ procs[j].status = 200) =>
            /\ GetNow(procs[j].rid).status = 404
            /\ \A q \in RowSet(db.questions) : q.lab_report_id # procs[j].rid
            /\ \A x \in RowSet(db.subtopics) :
                   x.question_id \notin QuestionIdsOf(SeedSubtopic.db, procs[j].rid)
                                        \cup QuestionIdsOf(db, procs[j].rid)

\* C21: when an add_question or add_subtopic under report R is served at the
\* same time as a delete of R, once both are answered (201 and 200) the store
\* holds no question whose report is absent and no subtopic whose question is
\* absent.
NoOrphanAfterRacingAdd ==
    \A i, j \in Slots :
        (/\ procs[i].op \in {"add_question", "add_subtopic"}
         /\ procs[j].op = "delete_lab_report"
         /\ Answered(i) /\ procs[i].status = 201
         /\ Answered(j) /\ procs[j].status = 200) =>
            /\ \A q \in RowSet(db.questions) :
                   q.lab_report_id \in RowIds(db.lab_reports)
            /\ \A x \in RowSet(db.subtopics) :
                   x.question_id \in RowIds(db.questions)

\* worker i hands an event to the notifier in this step
Emits(i) == Len(procs'[i].events) > Len(procs[i].events)

\* worker i returns a success response in this step
Succeeds(i) ==
    /\ procs[i].pc # "done"
    /\ procs'[i].pc = "done"
    /\ procs'[i].status \in {200, 201}

\* C22: within a mutation request the order is commit, then emit, then
\* response: a handler hands an event to the notifier only after its write was
\* committed (no transaction of its own is open and it does not hold the write
\* lock), and it returns 200 or 201 only with its event already handed over.
CommitThenEmitThenRespond ==
    [][\A i \in Slots :
           /\ Emits(i) =>
                  /\ procs[i].committed
                  /\ ~procs[i].txn
                  /\ lock # i
           /\ (Succeeds(i) /\ procs[i].op \in Mutations) =>
                  /\ Len(procs'[i].events) = 1
                  /\ procs'[i].committed]_vars

\* one mutation has committed, emitted and answered 200 or 201 while another
\* holds a write that is not committed and has emitted nothing
AnsweredBesideOpenWrite ==
    \E i, j \in Slots :
        /\ i # j
        /\ Answered(i)
        /\ procs[i].status \in {200, 201}
        /\ procs[i].committed
        /\ Len(procs[i].events) = 1
        /\ procs[j].txn
        /\ lock = j
        /\ procs[j].events = <<>>

(***************************************************************************)
(* Properties of the payloads of the events (Spec).                        *)
(***************************************************************************)
\* the question row of d with its subtopics, as the tables hold them
StoredQuestion(d, qid) ==
    SelectQuestion(d, qid)[1] @@ [subtopics |-> SelectSubtopicsUnordered(d, qid)]

\* the report row of d with its questions and their subtopics, as the tables
\* hold them
StoredReport(d, rid) ==
    LET qs == SelectQuestionsOf(d, rid)
    IN  SelectReport(d, rid)[1] @@
        [questions |-> [n \in 1..Len(qs) |->
                            qs[n] @@ [subtopics |-> SelectSubtopicsOf(d, qs[n].id)]]]

\* the entity the last mutation wrote, read from the store after it
StoredEntity ==
    CASE last.req.op = "update_lab_report" -> StoredReport(db, last.req.rid)
      [] last.req.op = "add_question"      -> StoredQuestion(db, last.nid)
      [] last.req.op = "update_question"   -> StoredQuestion(db, last.req.qid)
      [] last.req.op = "add_subtopic"      -> SelectSubtopic(db, last.nid)[1]
      [] last.req.op = "update_subtopic"   -> SelectSubtopic(db, last.req.sid)[1]
      [] OTHER                             -> [report_id |-> last.req.rid]

MutationSucceeded == last.req.op \in Mutations /\ last.status \in {200, 201}

\* C23 as stated: the payload of the event of a successful mutation equals
\* the entity as stored right after it and equals the body returned: the
\* nested report, the question with its subtopics, the subtopic; for a delete
\* the payload is the report identifier only.
PayloadEqualsEntityAndBody ==
    MutationSucceeded =>
        LET e == Replayed.events[1].payload
        IN  /\ e = StoredEntity
            /\ last.req.op # "delete_lab_report" => e = Replayed.body

\* C23 amended: the payload of lab_report_updated, question_added and
\* question_updated equals the stored entity and the body returned; the
\* payload of subtopic_added and subtopic_updated is the pair of the question
\* identifier of the request and the subtopic, and that subtopic equals the
\* stored row and the body returned; the payload of lab_report_deleted is
\* the report identifier only.
PayloadCarriesEntity ==
    MutationSucceeded =>
        LET e == Replayed.events[1].payload
        IN  IF last.req.op \in {"add_subtopic", "update_subtopic"}
            THEN /\ e = [question_id |-> last.req.qid, subtopic |-> StoredEntity]
                 /\ Replayed.body = StoredEntity
            ELSE /\ e = StoredEntity
                 /\ last.req.op # "delete_lab_report" => Replayed.body = e

\* a subtopic was updated and its event carries the question identifier
\* beside the subtopic that was returned
SubtopicEventWrapsSubtopic ==
    /\ last.req.op = "update_subtopic"
    /\ last.status = 200
    /\ Replayed.events[1].payload.question_id = last.req.qid
    /\ Replayed.events[1].payload.subtopic = Replayed.body
    /\ Replayed.body \in RowSet(db.subtopics)

\* C24: an update of a report, a question or a subtopic whose UPDATE statement
\* runs after a racing delete removed the row its existence check had found
\* fails as a whole: the row is never written back, no event is emitted, and
\* the request is answered 500, never 200.
RacedUpdateFailsWhole ==
    \A i \in hist.raced :
        /\ Target(db, procs[i]) = <<>>
        /\ Target(View(procs[i], World(db, lock, nextId, now, members)), procs[i]) = <<>>
        /\ procs[i].events = <<>>
        /\ procs[i].status \in {0, 500}
        /\ Answered(i) => procs[i].status = 500

\* a delete answered 200 and an update of the deleted report, or of a
\* question or a subtopic of it, whose body carries a null for a NOT NULL
\* column: its UPDATE ran after the delete was committed and changed no row,
\* its own commit followed, and it was answered 500
UpdateLostTheRace ==
    \E i \in hist.raced, j \in Slots :
        /\ procs[i].op \in {"update_lab_report", "update_question", "update_subtopic"}
        /\ NotNullViolated({procs[i].data.f[k] : k \in DOMAIN procs[i].data.f})
        /\ Answered(i)
        /\ procs[i].status = 500
        /\ procs[j].op = "delete_lab_report"
        /\ procs[j].status = 200
        /\ CommittedBefore(j, i)

(***************************************************************************)
(* Properties of update_subtopic as a replacement (SpecSubtopic).          *)
(***************************************************************************)
UpdateSubtopicSucceeded == last.req.op = "update_subtopic" /\ last.status = 200

\* the row of the subtopic the last request names, in d
NamedSubtopic(d) == SelectSubtopic(d, last.req.sid)[1]

\* C25: after a successful update_subtopic every one of procedures,
\* explanation, citations, image_url and figure_description that the body
\* omitted is the empty string, whatever it held before, and the id, the
\* question_id and the created_at of the row are what they were.
UpdateSubtopicReplacesAll ==
    UpdateSubtopicSucceeded =>
        /\ \A k \in SubtopicOptional :
               ~Has(last.req.data, k) => NamedSubtopic(db)[k] = ""
        /\ NamedSubtopic(db).id = NamedSubtopic(last.pre).id
        /\ NamedSubtopic(db).question_id = NamedSubtopic(last.pre).question_id
        /\ NamedSubtopic(db).created_at = NamedSubtopic(last.pre).created_at

\* a subtopic whose optional fields all held a text was updated, at a later
\* time than it was created, by a body with the title only
FilledSubtopicGotTitleOnly ==
    /\ UpdateSubtopicSucceeded
    /\ DOMAIN last.req.data.f = {"title"}
    /\ \A k \in SubtopicOptional : NamedSubtopic(last.pre)[k] \in Texts
    /\ NamedSubtopic(last.pre).created_at < now

(***************************************************************************)
(* Properties of the token gate (SpecRooms).                               *)
(***************************************************************************)
\* C26: every report, question and subtopic request without a token or with
\* a token that fails verification is answered 401, leaves the store as it
\* was, hands out no identifier and emits no event; a join or a leave of a
\* named room, which carries no token, takes effect and is acknowledged.
TokenGate ==
    /\ (last.req.op \in Ops /\ last.req.auth \notin Users) =>
           /\ last.status = 401
           /\ db = last.pre
           /\ ~last.committed
           /\ last.nid = 0
           /\ last.events = <<>>
    /\ (last.req.op \in {"join", "leave"} /\ last.req.rid # 0) =>
           /\ last.req.auth = "none"
           /\ Len(last.events) = 1
           /\ \A c \in last.events[1].to :
                  (<<c, last.req.rid>> \in members) <=> (last.req.op = "join")

\* a delete of an existing report with a token that fails verification was
\* refused, the report is still there, and a client that had joined the
\* report's room without a token was sent nothing
DeleteRefusedForBadToken ==
    /\ last.req.op = "delete_lab_report"
    /\ last.req.auth = "bad"
    /\ last.status = 401
    /\ SelectReport(db, last.req.rid) # <<>>
    /\ \E c \in Clients : <<c, last.req.rid>> \in members

====
